---- MODULE Spec2Model ----
(***************************************************************************)
(* A model of the research-chat pipeline of the personal website:          *)
(*   - the client chat session (ResearchChat / handleSendMessage),         *)
(*   - the server POST handler of /api/research-chat,                      *)
(*   - the context assembler loadResearchContent,                          *)
(*   - the document loaders behind aggregateResearchDocuments.             *)
(* Each component has its own specification over the shared variables.     *)
(***************************************************************************)
EXTENDS Integers, Sequences, FiniteSets, TLC

VARIABLES
    \* ---- client chat session (React state of ResearchChat) ----
    isOpen,      \* useState(false)
    messages,    \* useState<Message[]>([])
    inputValue,  \* useState("")
    isLoading,   \* useState(false)
    error,       \* useState<string | null>(null)
    view,        \* the state captured by the closures of the last render
    inflight,    \* fetches issued and not yet settled, oldest first
    lastOp,      \* the last handler that ran, and what it saw (history)
    \* ---- content on disk and the two loaders' last results ----
    fs,          \* content/blog/en, collections.json, personal.json
    context,     \* what loadResearchContent() returned for fs
    documents,   \* how aggregateResearchDocuments() settled for fs, and the time before
    \* ---- one run of the POST handler of /api/research-chat ----
    pc,          \* where the handler is: idle, awaitBody, awaitCompletion, done
    request,     \* the credential of the process and the request body
    response,    \* the NextResponse returned
    effects      \* what the handler did on the way (history)

clientVars == <<isOpen, messages, inputValue, isLoading, error, view, inflight, lastOp>>

contentVars == <<fs, context, documents>>

serverVars == <<pc, request, response, effects>>

vars == <<clientVars, contentVars, serverVars>>

\* ------------------------------------------------------------------------
\* Bounds of the model
\* ------------------------------------------------------------------------
\* accepted submissions per session
MaxSubmits == 2
\* files in the blog directory
MaxBlogFiles == 11
\* leading files of the blog directory that may be of any kind
MaxVariedFiles == 2

\* ------------------------------------------------------------------------
\* Strings are sequences of characters; String.prototype.trim
\* ------------------------------------------------------------------------
Whitespace == {" ", "\n"}

\* texts typed into the input: empty, whitespace-only, plain, padded
Inputs == { <<>>, <<" ", "\n">>, <<"a">>, <<" ", "a", " ">> }

RECURSIVE TrimStart(_)
TrimStart(s) ==
    IF s # <<>> /\ Head(s) \in Whitespace THEN TrimStart(Tail(s)) ELSE s

RECURSIVE TrimEnd(_)
TrimEnd(s) ==
    IF s # <<>> /\ s[Len(s)] \in Whitespace
    THEN TrimEnd(SubSeq(s, 1, Len(s) - 1))
    ELSE s

\* a trim that strips nothing: only the empty string comes out empty
TrimNothing(s) == s

Trim(s) == TrimEnd(TrimStart(s))

\* ------------------------------------------------------------------------
\* Text as a rope: a sequence of pieces, each with an identity, a length in
\* characters and the kind of text it is.  Concatenation is \o.
\* ------------------------------------------------------------------------
Piece(kind, id, n, len) == <<[kind |-> kind, id |-> id, n |-> n, len |-> len]>>

\* text written in the source
Lit(id, len) == Piece("fixed", id, 0, len)

\* String.prototype.length: the sum of the pieces' lengths, by halves
RECURSIVE RopeLen(_)
RopeLen(r) ==
    IF r = <<>> THEN 0
    ELSE IF Len(r) = 1 THEN r[1].len
    ELSE LET half == Len(r) \div 2
         IN  RopeLen(SubSeq(r, 1, half)) + RopeLen(SubSeq(r, half + 1, Len(r)))

\* String.prototype.substring(0, n)
RECURSIVE Substring(_, _)
Substring(r, n) ==
    IF r = <<>> \/ n <= 0 THEN <<>>
    ELSE IF Head(r).len <= n
         THEN <<Head(r)>> \o Substring(Tail(r), n - Head(r).len)
         ELSE <<[Head(r) EXCEPT !.len = n]>>

Min(a, b) == IF a <= b THEN a ELSE b

\* Array.prototype.slice(0, n)
Slice(items, n) == SubSeq(items, 1, Min(Len(items), n))

\* ------------------------------------------------------------------------
\* The fixed limits of loadResearchContent
\* ------------------------------------------------------------------------
MaxBlogItems == 10

BodyCap == 800

MaxProjects == 10

MaxPublications == 10

PersonalCap == 1000

DividerLen == 50

\* ------------------------------------------------------------------------
\* The content on disk
\* ------------------------------------------------------------------------
\* a file of content/blog/en, the n-th of the directory listing
BlogFile(kind, n) ==
    [ n |-> n,
      ext |-> IF kind = "note" THEN ".txt" ELSE ".mdx",
      stemLen |-> 13,
      readable |-> kind # "locked",
      \* the text opens with ---\n ... \n---\n
      frontmatter |-> kind \in {"hello", "longtitle"},
      fmLen |-> IF kind = "hello" THEN 14 ELSE IF kind = "longtitle" THEN 3009 ELSE 0,
      \* the text holds title: "..." somewhere
      titleLen |-> IF kind = "hello" THEN 5 ELSE IF kind = "longtitle" THEN 3000 ELSE 0,
      bodyLen |-> IF kind = "hello" THEN 5 ELSE IF kind = "longtitle" THEN 800 ELSE 2000 ]

BlogKinds == {"hello", "long", "longtitle", "locked", "note"}

FillerKinds == {"long"}

Text(id, n, len) == [id |-> id, n |-> n, len |-> len]

\* an optional field is <<>> when absent and <<value>> when present
Absent == <<>>

Project(n, techs) ==
    [ null |-> FALSE, name |-> Text("project", n, 1), dates |-> Text("dates", n, 4),
      description |-> Text("description", n, 40), authors |-> <<>>,
      technologies |-> techs ]

Publication(n, authors) ==
    [ null |-> FALSE, name |-> Text("publication", n, 30), dates |-> Text("dates", n, 4),
      description |-> Text("description", n, 120), authors |-> authors,
      technologies |-> <<>> ]

\* JSON null where a record is expected
NullItem ==
    [ null |-> TRUE, name |-> Text("null", 0, 0), dates |-> Text("null", 0, 0),
      description |-> Text("null", 0, 0), authors |-> <<>>, technologies |-> <<>> ]


\* what JSON.parse gives for collections.json, by the kind of file
CollectionsData(kind) ==
    CASE kind = "empty" ->
           [ projects |-> [present |-> FALSE, items |-> <<>>],
             publications |-> [present |-> FALSE, items |-> <<>>] ]
      [] kind = "one" ->
           [ projects |-> [present |-> TRUE,
                           items |-> <<Project(1, << <<Text("tech", 1, 2)>> >>)>>],
             publications |-> [present |-> TRUE, items |-> <<Publication(1, Absent)>>] ]
      [] kind = "many" ->
           [ projects |-> [present |-> TRUE,
                           items |-> [i \in 1..(MaxProjects + 1) |-> Project(i, Absent)]],
             publications |-> [present |-> TRUE,
                               items |-> [i \in 1..(MaxPublications + 1) |->
                                             Publication(i, <<Text("authors", i, 20)>>)]] ]
      [] kind = "nullitem" ->
           [ projects |-> [present |-> TRUE,
                           items |-> <<Project(1, Absent), NullItem, Project(3, Absent)>>],
             publications |-> [present |-> TRUE, items |-> <<Publication(1, Absent)>>] ]
      \* two project records with the same name and different descriptions
      [] kind = "samename" ->
           [ projects |-> [present |-> TRUE,
                           items |-> <<Project(1, Absent),
                                       [Project(2, Absent) EXCEPT !.name = Project(1, Absent).name]>>],
             publications |-> [present |-> TRUE, items |-> <<Publication(1, Absent)>>] ]

CollectionsKinds ==
    {"missing", "unreadable", "malformed", "empty", "one", "many", "nullitem", "samename"}

\* personal.json: the length of its text and of JSON.stringify(parsed, null, 2)
PersonalFile(kind) ==
    [ exists |-> kind # "missing",
      wellFormed |-> kind \in {"small", "large"},
      rawLen |-> IF kind = "large" THEN 5000 ELSE 300,
      prettyLen |-> IF kind = "large" THEN 5400 ELSE 320 ]

PersonalKinds == {"missing", "malformed", "small", "large"}

NotCalled == [called |-> FALSE]

ContentInit ==
    /\ fs = [blogDir |-> "missing", blogFiles |-> <<>>,
             collections |-> "missing", personal |-> "missing"]
    /\ context = NotCalled
    /\ documents = NotCalled

\* ------------------------------------------------------------------------
\* loadResearchContent: the context assembler
\* ------------------------------------------------------------------------
\* "=".repeat(50) + "\n"
Divider == Lit("=...=\n", DividerLen + 1)

IsMdx(file) == file.ext = ".mdx"

\* titleMatch ? titleMatch[1] : file.replace(/\.mdx$/, "")
ContextTitle(file) ==
    IF file.titleLen > 0
    THEN Piece("title", "title field", file.n, file.titleLen)
    ELSE Piece("title", "file stem", file.n, file.stemLen)

\* bodyMatch ? bodyMatch[1] : blogContent
BlogBody(file) == Piece("body", "blog body", file.n, file.bodyLen)

\* the whole body, with no cap
UncappedBody(file) == BlogBody(file)

\* body.substring(0, 800)
CappedBody(file) == Substring(BlogBody(file), BodyCap)

\* one pass of the blog loop; a file that cannot be read is logged and skipped
BlogEntry(file) ==
    IF ~file.readable THEN <<>>
    ELSE Lit("\n[BLOG] ", 8) \o ContextTitle(file) \o Lit("\n", 1)
           \o CappedBody(file) \o Lit("\n...\n", 5)

RECURSIVE BlogEntries(_)
BlogEntries(files) ==
    IF files = <<>> THEN <<>> ELSE BlogEntry(Head(files)) \o BlogEntries(Tail(files))

\* A section is the text it added to content and whether it threw.
Section(content, thrown) == [content |-> content, thrown |-> thrown]

\* existsSync is true for a path that is not a directory; readdirSync throws on it
BlogSection(f) ==
    CASE f.blogDir = "missing" -> Section(<<>>, FALSE)
      [] f.blogDir = "notdir"  -> Section(<<>>, TRUE)
      [] f.blogDir = "dir" ->
           Section(Lit("BLOG POSTS:\n", 12) \o Divider
                     \o BlogEntries(Slice(SelectSeq(f.blogFiles, IsMdx), MaxBlogItems)),
                   FALSE)

FieldText(t) == Piece("record", t.id, t.n, t.len)

RECURSIVE JoinTechnologies(_)
JoinTechnologies(list) ==
    IF list = <<>> THEN <<>>
    ELSE IF Len(list) = 1 THEN FieldText(list[1])
    ELSE FieldText(list[1]) \o Piece("record", ", ", 0, 2) \o JoinTechnologies(Tail(list))

ProjectEntry(proj) ==
    Lit("\n[PROJECT] ", 11) \o FieldText(proj.name) \o Lit(" (", 2)
      \o FieldText(proj.dates) \o Lit(")\n", 2)
      \o Lit("Description: ", 13) \o FieldText(proj.description) \o Lit("\n", 1)
      \o (IF proj.technologies # Absent
          THEN Lit("Technologies: ", 14) \o JoinTechnologies(proj.technologies[1]) \o Lit("\n", 1)
          ELSE <<>>)

PublicationEntry(pub) ==
    Lit("\n[PUBLICATION] ", 15) \o FieldText(pub.name) \o Lit("\n", 1)
      \o Lit("Authors: ", 9)
      \o (IF pub.authors # Absent /\ pub.authors[1].len > 0
          THEN FieldText(pub.authors[1]) ELSE Piece("record", "N/A", 0, 3))
      \o Lit("\n", 1)
      \o Lit("Date: ", 6) \o FieldText(pub.dates) \o Lit("\n", 1)
      \o Lit("Description: ", 13) \o FieldText(pub.description) \o Lit("\n", 1)

\* a for loop over records: reading a field of null throws, and what the
\* earlier passes appended stays in content
RECURSIVE RecordEntries(_, _)
RecordEntries(items, isProject) ==
    IF items = <<>> THEN Section(<<>>, FALSE)
    ELSE IF Head(items).null THEN Section(<<>>, TRUE)
    ELSE LET rest == RecordEntries(Tail(items), isProject)
             this == IF isProject THEN ProjectEntry(Head(items))
                                  ELSE PublicationEntry(Head(items))
         IN  Section(this \o rest.content, rest.thrown)

\* the second section runs only if the first did not throw
Then(first, second) ==
    IF first.thrown THEN first
    ELSE Section(first.content \o second.content, second.thrown)

ProjectsSection(data) ==
    IF ~data.projects.present THEN Section(<<>>, FALSE)
    ELSE Then(Section(Lit("\n\nPROJECTS:\n", 12) \o Divider, FALSE),
              RecordEntries(Slice(data.projects.items, MaxProjects), TRUE))

PublicationsSection(data) ==
    IF ~data.publications.present THEN Section(<<>>, FALSE)
    ELSE Then(Section(Lit("\n\nPUBLICATIONS:\n", 16) \o Divider, FALSE),
              RecordEntries(Slice(data.publications.items, MaxPublications), FALSE))

\* JSON.parse(fs.readFileSync(collectionsPath)) throws on a file that cannot be
\* read or parsed
CollectionsSection(f) ==
    CASE f.collections = "missing" -> Section(<<>>, FALSE)
      [] f.collections \in {"unreadable", "malformed"} -> Section(<<>>, TRUE)
      [] OTHER -> Then(ProjectsSection(CollectionsData(f.collections)),
                       PublicationsSection(CollectionsData(f.collections)))

PersonalSection(f) ==
    LET file == PersonalFile(f.personal)
    IN  IF ~file.exists THEN Section(<<>>, FALSE)
        ELSE IF ~file.wellFormed THEN Section(<<>>, TRUE)
        ELSE Section(Lit("\n\nPERSONAL INFORMATION:\n", 24) \o Divider
                       \o Substring(Piece("personal", "personal info", 0, file.prettyLen),
                                    PersonalCap),
                     FALSE)

Placeholder == Lit("No research content available", 29)

\* One try block around the three sections: the first throw ends the assembly,
\* and what was appended before it is returned.
LoadResearchContent(f) ==
    LET assembled == Then(Then(BlogSection(f), CollectionsSection(f)), PersonalSection(f))
    IN  IF RopeLen(assembled.content) = 0 THEN Placeholder ELSE assembled.content

\* ------------------------------------------------------------------------
\* aggregateResearchDocuments and its three loaders
\* ------------------------------------------------------------------------
FileName(file) == Text("file name", file.n, file.stemLen + 4)

BlogDocument(file) ==
    [ id |-> [prefix |-> "blog_", key |-> FileName(file)],
      title |-> Piece("title", "file stem", file.n, file.stemLen),
      content |-> Piece("frontmatter", "frontmatter", file.n,
                        IF file.frontmatter THEN file.fmLen ELSE 0)
                    \o Lit("\n\n", 2) \o BlogBody(file),
      source |-> "blog",
      tags |-> <<Text("blog", 0, 4), Text("file stem", file.n, file.stemLen)>> ]

\* the loop of loadBlogPosts: it has no try, so readFileSync's throw ends it
RECURSIVE BlogDocuments(_)
BlogDocuments(files) ==
    IF files = <<>> THEN [rejected |-> FALSE, docs |-> <<>>]
    ELSE IF ~IsMdx(Head(files)) THEN BlogDocuments(Tail(files))
    ELSE IF ~Head(files).readable THEN [rejected |-> TRUE, docs |-> <<>>]
    ELSE LET rest == BlogDocuments(Tail(files))
         IN  [rejected |-> rest.rejected,
              docs |-> IF rest.rejected THEN <<>> ELSE <<BlogDocument(Head(files))>> \o rest.docs]

LoadBlogPosts(f) ==
    CASE f.blogDir = "missing" -> [rejected |-> FALSE, docs |-> <<>>]
      [] f.blogDir = "notdir"  -> [rejected |-> TRUE, docs |-> <<>>]
      [] f.blogDir = "dir"     -> BlogDocuments(f.blogFiles)

ProjectDocument(project) ==
    [ id |-> [prefix |-> "project_", key |-> project.name],
      title |-> FieldText(project.name),
      content |-> Lit("Title: ", 7) \o FieldText(project.name)
                    \o Lit("\nDates: ", 8) \o FieldText(project.dates)
                    \o Lit("\nDescription: ", 14) \o FieldText(project.description)
                    \o Lit("\nTechnologies: ", 15)
                    \o (IF project.technologies # Absent /\ project.technologies[1] # <<>>
                        THEN JoinTechnologies(project.technologies[1])
                        ELSE Piece("record", "N/A", 0, 3)),
      source |-> "project",
      tags |-> <<Text("project", 0, 7)>>
                 \o (IF project.technologies # Absent THEN project.technologies[1] ELSE <<>>) ]

PublicationDocument(pub) ==
    [ id |-> [prefix |-> "publication_", key |-> pub.name],
      title |-> FieldText(pub.name),
      content |-> Lit("Title: ", 7) \o FieldText(pub.name)
                    \o Lit("\nAuthors: ", 10)
                    \o (IF pub.authors # Absent /\ pub.authors[1].len > 0
                        THEN FieldText(pub.authors[1]) ELSE Piece("record", "N/A", 0, 3))
                    \o Lit("\nDates: ", 8) \o FieldText(pub.dates)
                    \o Lit("\nDescription: ", 14) \o FieldText(pub.description),
      source |-> "publication",
      tags |-> <<Text("publication", 0, 11), Text("research", 0, 8)>> ]

\* a for loop pushing one document per record; thrown on a null record
RECURSIVE RecordDocuments(_, _)
RecordDocuments(items, isProject) ==
    IF items = <<>> THEN [thrown |-> FALSE, docs |-> <<>>]
    ELSE IF Head(items).null THEN [thrown |-> TRUE, docs |-> <<>>]
    ELSE LET rest == RecordDocuments(Tail(items), isProject)
             this == IF isProject THEN ProjectDocument(Head(items))
                                  ELSE PublicationDocument(Head(items))
         IN  [thrown |-> rest.thrown, docs |-> <<this>> \o rest.docs]

\* the try block of loadProjectsData: the catch logs, and what was pushed is returned
LoadProjectsData(f) ==
    IF f.collections \in {"missing", "unreadable", "malformed"} THEN <<>>
    ELSE LET data == CollectionsData(f.collections)
             projects == IF data.projects.present
                         THEN RecordDocuments(data.projects.items, TRUE)
                         ELSE [thrown |-> FALSE, docs |-> <<>>]
             publications == IF data.publications.present
                             THEN RecordDocuments(data.publications.items, FALSE)
                             ELSE [thrown |-> FALSE, docs |-> <<>>]
         IN  IF projects.thrown THEN projects.docs
             ELSE projects.docs \o publications.docs

\* the try block of loadSiteInfo: personal.json is read as text, not parsed
LoadSiteInfo(f) ==
    LET file == PersonalFile(f.personal)
    IN  IF ~file.exists THEN <<>>
        ELSE << [ id |-> [prefix |-> "site_info", key |-> Text("", 0, 0)],
                  title |-> Lit("Site Information", 16),
                  content |-> Lit("Website: ", 9) \o Piece("site", "url", 0, 20)
                                \o Lit("\nLast Updated: ", 15) \o Piece("site", "lastUpdated", 0, 10)
                                \o Lit("\n\n", 2)
                                \o Piece("personal", "personal info", 0, file.rawLen),
                  source |-> "general",
                  tags |-> <<Text("general", 0, 7), Text("about", 0, 5)>> ] >>

\* Promise.all of the three loaders, then [...blogs, ...projects, ...siteInfo]
AggregateResearchDocuments(f) ==
    LET blogs == LoadBlogPosts(f)
    IN  IF blogs.rejected
        THEN [called |-> TRUE, status |-> "rejected", docs |-> <<>>]
        ELSE [called |-> TRUE, status |-> "fulfilled",
              docs |-> blogs.docs \o LoadProjectsData(f) \o LoadSiteInfo(f)]

\* ResearchDocument.source
Sources == {"blog", "project", "publication", "general"}

\* the identifiers of the documents of the given sources, in order
RECURSIVE IdsOf(_, _)
IdsOf(docs, sources) ==
    IF docs = <<>> THEN <<>>
    ELSE (IF Head(docs).source \in sources THEN <<Head(docs).id>> ELSE <<>>)
           \o IdsOf(Tail(docs), sources)

\* ------------------------------------------------------------------------
\* The content changes on disk, and the loaders are called
\* ------------------------------------------------------------------------
SetBlogDir ==
    /\ \E kind \in {"missing", "notdir", "dir"} :
         /\ kind # fs.blogDir
         /\ fs' = [fs EXCEPT !.blogDir = kind, !.blogFiles = <<>>]
    /\ context' = NotCalled
    /\ documents' = NotCalled
    /\ UNCHANGED <<clientVars, serverVars>>

AddBlogFile ==
    /\ fs.blogDir = "dir"
    /\ Len(fs.blogFiles) < MaxBlogFiles
    /\ \E kind \in (IF Len(fs.blogFiles) < MaxVariedFiles THEN BlogKinds ELSE FillerKinds) :
         fs' = [fs EXCEPT !.blogFiles = Append(@, BlogFile(kind, Len(@) + 1))]
    /\ context' = NotCalled
    /\ documents' = NotCalled
    /\ UNCHANGED <<clientVars, serverVars>>

WriteCollections ==
    /\ \E kind \in CollectionsKinds :
         /\ kind # fs.collections
         /\ fs' = [fs EXCEPT !.collections = kind]
    /\ context' = NotCalled
    /\ documents' = NotCalled
    /\ UNCHANGED <<clientVars, serverVars>>

WritePersonal ==
    /\ \E kind \in PersonalKinds :
         /\ kind # fs.personal
         /\ fs' = [fs EXCEPT !.personal = kind]
    /\ context' = NotCalled
    /\ documents' = NotCalled
    /\ UNCHANGED <<clientVars, serverVars>>

CallLoadResearchContent ==
    /\ ~context.called
    /\ context' = [called |-> TRUE, text |-> LoadResearchContent(fs)]
    /\ UNCHANGED <<fs, documents>>
    /\ UNCHANGED <<clientVars, serverVars>>

\* a call on the content as it is, and one more on the same content: how the
\* first of the two settled, and its identifiers in order, are kept beside the
\* result of the second
CallAggregateResearchDocuments ==
    /\ documents.called => documents.before = <<>>
    /\ LET result == AggregateResearchDocuments(fs)
       IN  documents' = [ called |-> TRUE, status |-> result.status, docs |-> result.docs,
                          before |-> IF documents.called
                                     THEN <<[status |-> documents.status,
                                             ids |-> IdsOf(documents.docs, Sources)]>>
                                     ELSE <<>> ]
    /\ UNCHANGED <<fs, context>>
    /\ UNCHANGED <<clientVars, serverVars>>

ContentNext ==
    \/ SetBlogDir
    \/ AddBlogFile
    \/ WriteCollections
    \/ WritePersonal
    \/ CallLoadResearchContent
    \/ CallAggregateResearchDocuments

\* ------------------------------------------------------------------------
\* Client chat session
\* ------------------------------------------------------------------------
NoError == <<>>

Snapshot == [isOpen |-> isOpen, messages |-> messages,
             inputValue |-> inputValue, isLoading |-> isLoading]

\* messages.map((m) => ({ role: m.role, content: m.content }))
RoleContent(ms) == [i \in 1..Len(ms) |-> [role |-> ms[i].role, content |-> ms[i].content]]

CountRole(ms, r) == Cardinality({i \in 1..Len(ms) : ms[i].role = r})

\* The ways a fetch of /api/research-chat settles, as handleSendMessage sees them.
Outcomes == {
    [kind |-> "ok",           text |-> "answer"],
    [kind |-> "okBadJson",    text |-> "Unexpected end of JSON input"],
    [kind |-> "notOk",        text |-> "Invalid API Key"],
    [kind |-> "notOkNoError", text |-> "HTTP error! status: 500"],
    [kind |-> "notOkBadJson", text |-> "Unexpected end of JSON input"],
    [kind |-> "network",      text |-> "Failed to fetch"] }

\* what the try block throws, or NoError when it completes
Thrown(o) == IF o.kind = "ok" THEN NoError ELSE <<o.text>>

ErrorContent(errorMessage) ==
    <<"Sorry, I encountered an error: ">> \o errorMessage
        \o <<". Please make sure the API is configured correctly.">>

ClientInit ==
    /\ isOpen = FALSE
    /\ messages = <<>>
    /\ inputValue = <<>>
    /\ isLoading = FALSE
    /\ error = NoError
    /\ view = [isOpen |-> FALSE, messages |-> <<>>, inputValue |-> <<>>, isLoading |-> FALSE]
    /\ inflight = <<>>
    /\ lastOp = [op |-> "init"]

\* React re-renders the component: the closures now see the committed state.
Render ==
    /\ view # Snapshot
    /\ view' = Snapshot
    /\ lastOp' = [op |-> "render"]
    /\ UNCHANGED <<isOpen, messages, inputValue, isLoading, error, inflight>>
    /\ UNCHANGED <<contentVars, serverVars>>

\* the chat icon's onClick
OpenChat ==
    /\ ~view.isOpen
    /\ isOpen' = TRUE
    /\ lastOp' = [op |-> "open"]
    /\ UNCHANGED <<messages, inputValue, isLoading, error, view, inflight>>
    /\ UNCHANGED <<contentVars, serverVars>>

\* the header's close button
CloseChat ==
    /\ view.isOpen
    /\ isOpen' = FALSE
    /\ lastOp' = [op |-> "close"]
    /\ UNCHANGED <<messages, inputValue, isLoading, error, view, inflight>>
    /\ UNCHANGED <<contentVars, serverVars>>

\* the input's onChange; the rendered input is disabled while view.isLoading
OnChange ==
    /\ view.isOpen /\ ~view.isLoading
    /\ \E v \in Inputs :
        /\ v # inputValue
        /\ inputValue' = v
    /\ lastOp' = [op |-> "change"]
    /\ UNCHANGED <<isOpen, messages, isLoading, error, view, inflight>>
    /\ UNCHANGED <<contentVars, serverVars>>

\* handleSendMessage, reached from the Enter key of the rendered (enabled) input
\* or from the send button; it reads the state its closure captured.
HandleSendMessage ==
    /\ view.isOpen /\ ~view.isLoading
    /\ IF Trim(view.inputValue) = <<>>
       THEN /\ lastOp' = [op |-> "send", accepted |-> FALSE,
                          input |-> view.inputValue, wasLoading |-> isLoading]
            /\ UNCHANGED <<isOpen, messages, inputValue, isLoading, error, view, inflight>>
       ELSE /\ CountRole(messages, "user") < MaxSubmits
            /\ messages' = Append(messages, [role |-> "user", content |-> view.inputValue])
            /\ inputValue' = <<>>
            /\ isLoading' = TRUE
            /\ error' = NoError
            /\ inflight' = Append(inflight,
                   [messages |-> RoleContent(view.messages),
                    question |-> view.inputValue,
                    userAt   |-> Len(messages) + 1])
            /\ lastOp' = [op |-> "send", accepted |-> TRUE,
                          input |-> view.inputValue, wasLoading |-> isLoading]
            /\ UNCHANGED <<isOpen, view>>
    /\ UNCHANGED <<contentVars, serverVars>>

\* a catch block that forgets the finally: a failure leaves the flag as it was
LoadingAfterCatchOnly(o) == IF Thrown(o) = NoError THEN FALSE ELSE isLoading

\* finally { setIsLoading(false) }
LoadingAfter(o) == FALSE

\* the rest of handleSendMessage once its fetch settles: try, catch, finally
Settle ==
    /\ \E i \in 1..Len(inflight), o \in Outcomes :
           /\ IF Thrown(o) = NoError
              THEN /\ messages' = Append(messages, [role |-> "assistant", content |-> <<o.text>>])
                   /\ UNCHANGED error
              ELSE /\ error' = Thrown(o)
                   /\ messages' = Append(messages,
                          [role |-> "assistant", content |-> ErrorContent(Thrown(o))])
           /\ isLoading' = LoadingAfter(o)
           /\ inflight' = [j \in 1..(Len(inflight) - 1) |->
                               IF j < i THEN inflight[j] ELSE inflight[j + 1]]
           /\ lastOp' = [op |-> "settle", kind |-> o.kind, userAt |-> inflight[i].userAt]
           /\ UNCHANGED <<isOpen, inputValue, view>>
    /\ UNCHANGED <<contentVars, serverVars>>

ClientNext ==
    \/ Render
    \/ OpenChat
    \/ CloseChat
    \/ OnChange
    \/ HandleSendMessage
    \/ Settle

\* ------------------------------------------------------------------------
\* Error messages, character by character (String.prototype.includes reads them)
\* ------------------------------------------------------------------------
\* 401
Needle401 ==
    <<"4","0","1">>

\* Unauthorized
NeedleUnauthorized ==
    <<"U","n","a","u","t","h","o","r","i","z","e","d">>

\* Unknown error occurred: errorMessage when what was thrown is not an Error
UnknownError ==
    <<"U","n","k","n","o","w","n"," ","e","r","r","o","r"," ","o","c","c","u","r","r","e",
      "d">>

\* Unexpected end of JSON input: request.json() on an empty body
EndOfInput ==
    <<"U","n","e","x","p","e","c","t","e","d"," ","e","n","d"," ","o","f"," ","J","S","O",
      "N"," ","i","n","p","u","t">>

\* Unexpected token 'U', "Unauthorized" is not valid JSON: request.json() on the body text Unauthorized
NotJsonText ==
    <<"U","n","e","x","p","e","c","t","e","d"," ","t","o","k","e","n"," ","'","U","'",",",
      " ","\"","U","n","a","u","t","h","o","r","i","z","e","d","\""," ","i","s"," ","n","o",
      "t"," ","v","a","l","i","d"," ","J","S","O","N">>

\* Unexpected token } in JSON at position 401: request.json() on a body broken at its 402nd character
BadTokenLate ==
    <<"U","n","e","x","p","e","c","t","e","d"," ","t","o","k","e","n"," ","}"," ","i","n",
      " ","J","S","O","N"," ","a","t"," ","p","o","s","i","t","i","o","n"," ","4","0","1">>

\* Cannot destructure property 'messages' of 'body' as it is null.: const { messages, question } = null
DestructureNull ==
    <<"C","a","n","n","o","t"," ","d","e","s","t","r","u","c","t","u","r","e"," ","p","r",
      "o","p","e","r","t","y"," ","'","m","e","s","s","a","g","e","s","'"," ","o","f"," ",
      "'","b","o","d","y","'"," ","a","s"," ","i","t"," ","i","s"," ","n","u","l","l",".">>

\* question.trim is not a function: question is a number
TrimNotFunction ==
    <<"q","u","e","s","t","i","o","n",".","t","r","i","m"," ","i","s"," ","n","o","t"," ",
      "a"," ","f","u","n","c","t","i","o","n">>

\* Cannot read properties of undefined (reading 'map'): messages is absent
MapOfUndefined ==
    <<"C","a","n","n","o","t"," ","r","e","a","d"," ","p","r","o","p","e","r","t","i","e",
      "s"," ","o","f"," ","u","n","d","e","f","i","n","e","d"," ","(","r","e","a","d","i",
      "n","g"," ","'","m","a","p","'",")">>

\* 401 Invalid API Key: the provider rejects the key
ProviderAuth ==
    <<"4","0","1"," ","I","n","v","a","l","i","d"," ","A","P","I"," ","K","e","y">>

\* Unauthorized: the provider rejects the key
ProviderUnauthorized ==
    <<"U","n","a","u","t","h","o","r","i","z","e","d">>

\* 429 Rate limit reached: the provider throttles
ProviderRateLimit ==
    <<"4","2","9"," ","R","a","t","e"," ","l","i","m","i","t"," ","r","e","a","c","h","e",
      "d">>

\* Connection error.: the provider cannot be reached
ProviderConnection ==
    <<"C","o","n","n","e","c","t","i","o","n"," ","e","r","r","o","r",".">>

\* ------------------------------------------------------------------------
\* The POST handler of /api/research-chat
\* ------------------------------------------------------------------------
\* String.prototype.includes
Includes(text, needle) ==
    \E i \in 1..(Len(text) - Len(needle) + 1) :
        SubSeq(text, i, i + Len(needle) - 1) = needle

\* process.env.GROQ_API_KEY: unset, set to the empty string, set to a key
ApiKeys ==
    { [set |-> FALSE, v |-> <<>>], [set |-> TRUE, v |-> <<>>], [set |-> TRUE, v |-> <<"k">>] }

\* a credential check that passes whatever is set, even nothing
AnyApiKey(key) == TRUE

\* !apiKey is false
HasApiKey(key) == key.set /\ key.v # <<>>

\* body.question: absent, a string, or a number other than 0
Questions ==
    { [t |-> "undefined", v |-> <<>>], [t |-> "number", v |-> <<>>] }
      \cup { [t |-> "string", v |-> q] : q \in Inputs }

User(text) == [role |-> "user", content |-> text]

Assistant(text) == [role |-> "assistant", content |-> text]

\* body.messages: absent, or the history the client sends
Histories ==
    { [t |-> "undefined", v |-> <<>>],
      [t |-> "array", v |-> <<>>],
      [t |-> "array", v |-> <<User(<<"a">>), Assistant(<<"answer">>)>>],
      [t |-> "array", v |-> <<User(<<"a">>), User(<<"a">>), Assistant(<<"answer">>),
                              User(<<" ", "a", " ">>)>>] }

\* the request body: text that is not JSON, JSON null, or a JSON object
Bodies ==
    { [kind |-> k, question |-> [t |-> "undefined", v |-> <<>>],
       messages |-> [t |-> "undefined", v |-> <<>>]] :
          k \in {"empty", "notJson", "brokenLate", "null"} }
      \cup { [kind |-> "object", question |-> q, messages |-> h] :
                q \in Questions, h \in Histories }

\* what request.json() throws on a body that is not JSON
JsonError(body) ==
    CASE body.kind = "empty"      -> EndOfInput
      [] body.kind = "notJson"    -> NotJsonText
      [] body.kind = "brokenLate" -> BadTokenLate

\* the ways groq.chat.completions.create settles
Completions ==
    { [ok |-> TRUE,  isError |-> FALSE, text |-> <<"answer">>],
      [ok |-> TRUE,  isError |-> FALSE, text |-> <<>>],
      [ok |-> FALSE, isError |-> TRUE,  text |-> ProviderAuth],
      [ok |-> FALSE, isError |-> TRUE,  text |-> ProviderUnauthorized],
      [ok |-> FALSE, isError |-> TRUE,  text |-> ProviderRateLimit],
      [ok |-> FALSE, isError |-> TRUE,  text |-> ProviderConnection],
      [ok |-> FALSE, isError |-> FALSE, text |-> Needle401] }

Response(status, err, message, text) ==
    [status |-> status, error |-> err, message |-> message, response |-> text]

NoResponse == Response(0, "", <<>>, <<>>)

NoRequest == [apiKey |-> [set |-> FALSE, v |-> <<>>], body |-> [kind |-> "none"]]

\* thrown is the message of the Error that reached the catch block
NoEffects ==
    [parsed |-> FALSE, loads |-> 0, calls |-> <<>>, failedAt |-> "none", thrown |-> <<>>]


\* truthiness of body.question
Truthy(q) == q.t = "number" \/ (q.t = "string" /\ q.v # <<>>)

\* a check that forgets to trim
QuestionCheckNoTrim(q) == IF Truthy(q) THEN "ok" ELSE "blank"

\* !question || !question.trim(): blank, or a TypeError when trim is not a function
QuestionCheck(q) ==
    IF ~Truthy(q) THEN "blank"
    ELSE IF q.t # "string" THEN "throws"
    ELSE IF Trim(q.v) = <<>> THEN "blank"
    ELSE "ok"

SystemMessage ==
    [role |-> "system",
     content |-> <<"You are a research assistant ... MY RESEARCH AND WORK INFORMATION:",
                   "${researchContent}", "Important Guidelines: ...">>]

\* a history cut to its last two messages
BuildMessagesCapped(history, question) ==
    <<SystemMessage>>
      \o [i \in 1..Min(Len(history), 2) |->
             [role |-> history[Len(history) - Min(Len(history), 2) + i].role,
              content |-> history[Len(history) - Min(Len(history), 2) + i].content]]
      \o <<[role |-> "user", content |-> question]>>

\* the messages handed to groq.chat.completions.create
BuildMessages(history, question) ==
    <<SystemMessage>>
      \o [i \in 1..Len(history) |-> [role |-> history[i].role, content |-> history[i].content]]
      \o <<[role |-> "user", content |-> question]>>

\* the catch block: the response for what was thrown
Catch(thrown) ==
    LET errorMessage == IF thrown.isError THEN thrown.text ELSE UnknownError
    IN  IF Includes(errorMessage, Needle401) \/ Includes(errorMessage, NeedleUnauthorized)
        THEN Response(401, "Invalid API Key",
                      <<"Your Groq API key is invalid. Please get a free key from https://console.groq.com/keys">>,
                      <<>>)
        ELSE Response(500, "Failed to generate response", errorMessage, <<>>)

Throw(text) == [isError |-> TRUE, text |-> text]

ServerInit ==
    /\ pc = "idle"
    /\ request = NoRequest
    /\ response = NoResponse
    /\ effects = NoEffects

\* POST up to its first await: the credential check, then request.json() is awaited
PostStart ==
    /\ pc = "idle"
    /\ \E key \in ApiKeys, body \in Bodies :
         /\ request' = [apiKey |-> key, body |-> body]
         /\ IF ~HasApiKey(key)
            THEN /\ response' = Response(500, "GROQ_API_KEY not configured",
                        <<"Please set GROQ_API_KEY in your .env.local file. Get a free key at https://console.groq.com/keys">>,
                        <<>>)
                 /\ pc' = "done"
            ELSE /\ response' = NoResponse
                 /\ pc' = "awaitBody"
    /\ effects' = NoEffects
    /\ UNCHANGED <<clientVars, contentVars>>

\* POST from the body to its second await: validation, loadResearchContent, and
\* the provider call is issued; whatever is thrown goes to the catch block
PostBody ==
    /\ pc = "awaitBody"
    /\ LET body == request.body
           \* thrown at `at`, after the body was or was not parsed and the
           \* content was or was not loaded
           failed(at, text, parsed, loads) ==
               /\ response' = Catch(Throw(text))
               /\ effects' = [effects EXCEPT !.failedAt = at, !.thrown = text,
                                             !.parsed = parsed, !.loads = loads]
               /\ pc' = "done"
       IN  IF body.kind \in {"empty", "notJson", "brokenLate"}
           THEN failed("json", JsonError(body), FALSE, 0)
           ELSE IF body.kind = "null"
           THEN failed("destructure", DestructureNull, TRUE, 0)
           ELSE IF QuestionCheck(body.question) = "blank"
           THEN /\ response' = Response(400, "Question is required", <<>>, <<>>)
                /\ effects' = [effects EXCEPT !.parsed = TRUE]
                /\ pc' = "done"
           ELSE IF QuestionCheck(body.question) = "throws"
           THEN failed("trim", TrimNotFunction, TRUE, 0)
           ELSE IF body.messages.t = "undefined"
           THEN failed("map", MapOfUndefined, TRUE, 1)
           ELSE /\ effects' = [effects EXCEPT
                                 !.parsed = TRUE, !.loads = 1,
                                 !.calls = Append(@, BuildMessages(body.messages.v,
                                                                   body.question.v))]
                /\ pc' = "awaitCompletion"
                /\ UNCHANGED response
    /\ UNCHANGED <<request, clientVars, contentVars>>

\* POST after the provider call settles: the answer, or the catch block
PostCompletion ==
    /\ pc = "awaitCompletion"
    /\ \E c \in Completions :
         IF c.ok
         THEN /\ response' = Response(200, "", <<>>,
                     IF c.text # <<>> THEN c.text
                     ELSE <<"Sorry, I couldn't generate a response.">>)
              /\ UNCHANGED effects
         ELSE /\ response' = Catch([isError |-> c.isError, text |-> c.text])
              /\ effects' = [effects EXCEPT !.failedAt = "provider",
                                            !.thrown = IF c.isError THEN c.text ELSE <<>>]
    /\ pc' = "done"
    /\ UNCHANGED <<request, clientVars, contentVars>>

\* the handler keeps nothing: the next request starts afresh
PostReturn ==
    /\ pc = "done"
    /\ pc' = "idle"
    /\ request' = NoRequest
    /\ response' = NoResponse
    /\ effects' = NoEffects
    /\ UNCHANGED <<clientVars, contentVars>>

ServerNext ==
    \/ PostStart
    \/ PostBody
    \/ PostCompletion
    \/ PostReturn

\* ------------------------------------------------------------------------
\* Specifications, one per component
\* ------------------------------------------------------------------------
Init == ClientInit /\ ContentInit /\ ServerInit

SpecChat == Init /\ [][ClientNext]_vars

SpecContent == Init /\ [][ContentNext]_vars

SpecServer == Init /\ [][ServerNext]_vars

\* empty or made of whitespace only
IsBlank(s) == \A i \in 1..Len(s) : s[i] \in Whitespace

\* C1: at most one request is in flight at any time, and a handleSendMessage
\* that runs while isLoading is true is a no-op (it appends no user message
\* and issues no fetch).
C1_SingleFlight ==
    /\ Len(inflight) <= 1
    /\ (lastOp.op = "send" /\ lastOp.wasLoading) => ~lastOp.accepted

\* C2: every accepted Submit gets exactly one assistant message once its
\* request settles, whichever way it settles: user messages are matched by
\* assistant messages except for the requests still in flight, a settlement
\* appends the assistant message after its user message and clears isLoading,
\* a failing settlement appends the wrapped error and sets the last error,
\* and with nothing in flight the session is idle.
C2_EveryTurnCompletes ==
    /\ CountRole(messages, "user") = CountRole(messages, "assistant") + Len(inflight)
    /\ \A i \in 1..Len(inflight) :
          /\ inflight[i].userAt \in 1..Len(messages)
          /\ messages[inflight[i].userAt] =
                 [role |-> "user", content |-> inflight[i].question]
    /\ lastOp.op = "settle" =>
          /\ ~isLoading
          /\ lastOp.userAt < Len(messages)
          /\ messages[Len(messages)].role = "assistant"
          /\ lastOp.kind # "ok" =>
                /\ error # NoError
                /\ messages[Len(messages)].content = ErrorContent(error)
    /\ inflight = <<>> => ~isLoading

\* C2's case: a non-OK response with an unparseable body has settled the
\* only request in flight.
C2_Witness ==
    /\ lastOp.op = "settle"
    /\ lastOp.kind = "notOkBadJson"
    /\ inflight = <<>>
    /\ Len(messages) = 2

\* C3: a handleSendMessage whose input is empty or whitespace-only leaves the
\* message list, the loading flag, the last error, the input value and the
\* set of issued fetches unchanged.
C3_BlankSubmitChangesNothing ==
    [][(lastOp'.op = "send" /\ IsBlank(lastOp'.input))
          => UNCHANGED <<messages, isLoading, error, inputValue, inflight>>]_vars

\* C3's case: a whitespace-only input was submitted after a failed turn.
C3_Witness ==
    /\ lastOp.op = "send"
    /\ lastOp.input # <<>>
    /\ IsBlank(lastOp.input)
    /\ error # NoError
    /\ Len(messages) = 2

\* ------------------------------------------------------------------------
\* Claims about the loaders
\* ------------------------------------------------------------------------
\* the place of a source category in the returned list
Rank(source) == CASE source = "blog" -> 1 [] source = "general" -> 3 [] OTHER -> 2

MdxFiles(f) == SelectSeq(f.blogFiles, IsMdx)

\* a blog directory that is not a directory, or that holds a post that cannot be read
BlogSourceFails(f) ==
    \/ f.blogDir = "notdir"
    \/ \E i \in 1..Len(MdxFiles(f)) : ~MdxFiles(f)[i].readable

ExpectedBlogIds(f) ==
    [i \in 1..Len(MdxFiles(f)) |-> [prefix |-> "blog_", key |-> FileName(MdxFiles(f)[i])]]

ExpectedRecordIds(f) ==
    LET data == CollectionsData(f.collections)
    IN  [i \in 1..Len(data.projects.items) |->
            [prefix |-> "project_", key |-> data.projects.items[i].name]]
        \o [i \in 1..Len(data.publications.items) |->
               [prefix |-> "publication_", key |-> data.publications.items[i].name]]

\* C8: aggregateResearchDocuments never rejects; a source that is missing,
\* unreadable or malformed contributes no document, every document of each
\* unaffected source is returned, and the order is blog, project and
\* publication, general.
C8_AggregateNeverRejects ==
    documents.called =>
        /\ documents.status = "fulfilled"
        /\ \A i, j \in 1..Len(documents.docs) :
              i < j => Rank(documents.docs[i].source) <= Rank(documents.docs[j].source)
        /\ IdsOf(documents.docs, {"blog"}) =
              (IF BlogSourceFails(fs) THEN <<>> ELSE ExpectedBlogIds(fs))
        /\ fs.collections \in {"missing", "unreadable", "malformed"} =>
              IdsOf(documents.docs, {"project", "publication"}) = <<>>
        /\ fs.collections \in {"empty", "one", "many"} =>
              IdsOf(documents.docs, {"project", "publication"}) = ExpectedRecordIds(fs)
        /\ Len(IdsOf(documents.docs, {"general"})) =
              (IF fs.personal = "missing" THEN 0 ELSE 1)

Has(r, id) == \E i \in 1..Len(r) : r[i].id = id

\* C9: in loadResearchContent an error in one source affects only that
\* source's section: the section of every source that is present and well
\* formed is in the returned string, whatever the other sources are.
C9_SourceErrorsStayLocal ==
    context.called =>
        /\ RopeLen(context.text) > 0
        /\ fs.blogDir = "dir" => Has(context.text, "BLOG POSTS:\n")
        /\ fs.collections \in {"one", "many"} =>
              /\ Has(context.text, "\n\nPROJECTS:\n")
              /\ Has(context.text, "\n\nPUBLICATIONS:\n")
        /\ (PersonalFile(fs.personal).exists /\ PersonalFile(fs.personal).wellFormed) =>
              Has(context.text, "\n\nPERSONAL INFORMATION:\n")

\* the length of the pieces of r whose kind is in kinds, by halves
RECURSIVE KindLen(_, _)
KindLen(r, kinds) ==
    IF r = <<>> THEN 0
    ELSE IF Len(r) = 1 THEN (IF r[1].kind \in kinds THEN r[1].len ELSE 0)
    ELSE LET half == Len(r) \div 2
         IN  KindLen(SubSeq(r, 1, half), kinds) + KindLen(SubSeq(r, half + 1, Len(r)), kinds)

CountId(r, id) == Cardinality({i \in 1..Len(r) : r[i].id = id})

\* every header and label of the context, and every capped text at its cap
CapsMaximum ==
    (12 + DividerLen + 1) + MaxBlogItems * (8 + 1 + BodyCap + 5)
      + (12 + DividerLen + 1) + MaxProjects * (11 + 2 + 2 + 13 + 1 + 14 + 1)
      + (16 + DividerLen + 1) + MaxPublications * (15 + 1 + 9 + 1 + 6 + 1 + 13 + 1)
      + (24 + DividerLen + 1) + PersonalCap

\* C10 as claimed: whatever the input, the returned string is no longer than
\* the maximum the fixed limits give (the text of the at most 10 project and
\* 10 publication records is not counted against it).
C10_BoundedByCaps ==
    context.called =>
        RopeLen(context.text) - KindLen(context.text, {"record"}) <= CapsMaximum

\* C10 as amended: the returned string holds at most 10 blog entries, each
\* with at most 800 characters of body, at most 10 project and 10 publication
\* entries and at most 1000 characters of personal info; and its length, less
\* the blog titles and the record fields, which are not capped, is at most the
\* maximum the fixed limits give.
C10_BoundedButForTitles ==
    context.called =>
        /\ CountId(context.text, "\n[BLOG] ") <= MaxBlogItems
        /\ CountId(context.text, "\n[PROJECT] ") <= MaxProjects
        /\ CountId(context.text, "\n[PUBLICATION] ") <= MaxPublications
        /\ \A i \in 1..Len(context.text) :
              /\ context.text[i].kind = "body" => context.text[i].len <= BodyCap
              /\ context.text[i].kind = "personal" => context.text[i].len <= PersonalCap
        /\ RopeLen(context.text) - KindLen(context.text, {"record", "title"}) <= CapsMaximum

\* C10's case: more than 10 posts on disk, bodies and personal info longer
\* than their caps; 10 entries come out, cut at the caps.
C10_Witness ==
    /\ context.called
    /\ Len(MdxFiles(fs)) > MaxBlogItems
    /\ CountId(context.text, "\n[BLOG] ") = MaxBlogItems
    /\ \E i \in 1..Len(context.text) :
          context.text[i].kind = "body" /\ context.text[i].len = BodyCap
    /\ \E i \in 1..Len(context.text) :
          context.text[i].kind = "personal" /\ context.text[i].len = PersonalCap
    /\ fs.collections = "many"
    /\ CountId(context.text, "\n[PROJECT] ") = MaxProjects

\* An identifier is its prefix followed by its key.  No prefix begins another
\* ("blog_", "project_", "publication_" and "site_info" differ within their
\* first three characters), so two identifiers are the same string exactly
\* when their prefixes and their keys are.
PairwiseDistinct(ids) == \A i, j \in 1..Len(ids) : i # j => ids[i] # ids[j]

\* C11: in the list one call of aggregateResearchDocuments returns, the
\* identifiers are pairwise distinct, whatever the blog files and the project
\* and publication records are (records that share a name included); and a
\* call on unchanged content returns the identifiers of the call before it,
\* in the same order.
C11_IdsDistinctAndStable ==
    (documents.called /\ documents.status = "fulfilled") =>
        /\ PairwiseDistinct(IdsOf(documents.docs, Sources))
        /\ documents.before # <<>> =>
              /\ documents.before[1].status = "fulfilled"
              /\ documents.before[1].ids = IdsOf(documents.docs, Sources)

\* ------------------------------------------------------------------------
\* Claims about the POST handler
\* ------------------------------------------------------------------------
KeyAbsent(key) == ~key.set \/ key.v = <<>>

\* C4: with no GROQ_API_KEY the handler answers 500 "GROQ_API_KEY not
\* configured" whatever the body, and at once: the body is not parsed, no
\* content is loaded and the provider is not called.
C4_MissingKeyIs500First ==
    (pc # "idle" /\ KeyAbsent(request.apiKey)) =>
        /\ pc = "done"
        /\ response.status = 500
        /\ response.error = "GROQ_API_KEY not configured"
        /\ ~effects.parsed
        /\ effects.loads = 0
        /\ effects.calls = <<>>

\* C4's case: no credential and a body that is not JSON.
C4_Witness ==
    /\ pc = "done"
    /\ ~request.apiKey.set
    /\ request.body.kind = "notJson"

\* the question is missing, empty or whitespace-only
QuestionBlank(q) == q.t = "undefined" \/ (q.t = "string" /\ IsBlank(q.v))

\* C5: with the credential set, a body whose question is missing, empty or
\* whitespace-only is answered 400 "Question is required"; the content is
\* not loaded and the provider is not called.
C5_BlankQuestionIs400 ==
    (pc \in {"awaitCompletion", "done"} /\ ~KeyAbsent(request.apiKey)
        /\ request.body.kind = "object" /\ QuestionBlank(request.body.question)) =>
        /\ pc = "done"
        /\ response.status = 400
        /\ response.error = "Question is required"
        /\ effects.loads = 0
        /\ effects.calls = <<>>

\* C5's case: a whitespace-only question sent with a history.
C5_Witness ==
    /\ pc = "done"
    /\ ~KeyAbsent(request.apiKey)
    /\ request.body.kind = "object"
    /\ request.body.question.t = "string"
    /\ request.body.question.v # <<>>
    /\ IsBlank(request.body.question.v)
    /\ request.body.messages.t = "array"
    /\ request.body.messages.v # <<>>

\* the failure is an authentication failure
AuthFailure(text) == Includes(text, Needle401) \/ Includes(text, NeedleUnauthorized)

\* C6: a failed provider call is answered 401 "Invalid API Key" exactly when
\* its error message holds "401" or "Unauthorized", and 500 "Failed to
\* generate response" otherwise; and 401 is answered for nothing but a failed
\* provider call.
C6_ProviderFailuresClassified ==
    pc = "done" =>
        /\ effects.failedAt = "provider" =>
              /\ response.status \in {401, 500}
              /\ response.status = 401 <=> AuthFailure(effects.thrown)
              /\ response.status = 401 => response.error = "Invalid API Key"
              /\ response.status = 500 => response.error = "Failed to generate response"
        /\ response.status = 401 => effects.failedAt = "provider"

\* C7: the provider is called at most once per request, with one system
\* message, then the request's messages in their order with role and content
\* as sent, then one user message holding the question as sent.
C7_MessagesSentVerbatim ==
    /\ Len(effects.calls) <= 1
    /\ pc = "awaitCompletion" => Len(effects.calls) = 1
    /\ \A c \in 1..Len(effects.calls) :
          LET sent == effects.calls[c]
              history == request.body.messages.v
          IN  /\ Len(sent) = Len(history) + 2
              /\ sent[1].role = "system"
              /\ \A i \in 1..Len(history) :
                    sent[i + 1] = [role |-> history[i].role, content |-> history[i].content]
              /\ sent[Len(sent)] = [role |-> "user", content |-> request.body.question.v]

\* C7's case: a history with two user messages in a row and a padded
\* question went to the provider, once, and the call failed.
C7_Witness ==
    /\ pc = "done"
    /\ Len(effects.calls) = 1
    /\ Len(request.body.messages.v) = 4
    /\ request.body.question.v = <<" ", "a", " ">>
    /\ effects.failedAt = "provider"

====
